---- MODULE Spec2Model ----
(***************************************************************************)
(* Model of the query mediation layer of mini-mysql-server:                *)
(*   src/src/backend.rs     Backend::on_query, get_all_keys, get_record    *)
(*   src/src/rate_limit.rs  check_rate_limit (INCR + EXPIRE Lua script)    *)
(*   src/src/auth.rs        verify_token (GETDEL), QrVerifyResult          *)
(*   src/src/query.rs       parse_query, check_rejected_patterns,          *)
(*                          parse_qr_verify, parse_where_pk                *)
(*   src/src/config.rs      Config                                         *)
(*   src/src/main.rs        main, verify_redis_connection                  *)
(* The key-value store (Redis) is modelled by three maps, one per key      *)
(* namespace: ratelimit:{ip}, auth:{token} and users.{pk}.  Every store    *)
(* command is one atomic step; a command may fail before it runs ("err")   *)
(* or, for a writing command, after it ran ("lost": the reply is lost).    *)
(* The classifier works on query texts as sequences of UTF-8 bytes; the    *)
(* actions of on_query take a query by the QueryType its text parses to.   *)
(***************************************************************************)
EXTENDS Integers, Sequences, FiniteSets, TLC

(* ------------------------------ bounds -------------------------------- *)
MaxLimit == 2
MaxWindow == 2
MaxScanLimit == 2
MaxKeys == 3
MaxQueries == 4
MaxPad == 1

Conns == {"c1", "c2"}
IPs == {"10.0.0.1", "10.0.0.2"}
Tokens == {"t1"}
PKs == {ToString(i) : i \in 1..MaxKeys}

(* --------------------------- program values --------------------------- *)
None == "None"
VERSION == "8.0.36-mini-mysql-redis"
Tables == {"users"}

\* stored JSON texts: one that deserializes and one that does not
GoodTokenJson == "{user_id:u001,facility:fac-tokyo}"
GoodRecordJson == "{name,email,age,created_at}"
BadJson == "not-json"
Absent == "absent"

VARIABLES
  config,       \* Config: rate_limit, rate_window, scan_limit, allow_scan
  client_addr,  \* Backend.client_addr (ip) of every connection
  ratelimit,    \* store: ratelimit:{ip} -> [count, ttl]; count 0 = no key
  auth,         \* store: auth:{token} -> JSON text or Absent
  records,      \* store: users.{pk} -> JSON text or Absent
  pc,           \* where each connection's on_query is suspended
  query,        \* the query in hand, named by the QueryType its text parses to
  allowed,      \* what check_rate_limit returned for the query in hand
  query_type,   \* what parse_query returned, NoQuery when it was not called
  cursor,       \* get_all_keys: cursor
  keys,         \* get_all_keys: keys; then the keys still to fetch
  rw,           \* rows written to the RowWriter so far
  response,     \* what the client received for its last query
  qr_result,    \* the QrVerifyResult verify_token returned last
  logged,       \* QueryLog type of the last query
  ops,          \* store commands issued for the query in hand
  sent,         \* number of queries received so far
  rl_hist,      \* history: replies of the script in the key's lifetime
  window_age,   \* history: seconds since ratelimit:{ip} was created
  tok_hist,     \* history of every token since it was last issued
  qr_seen,      \* history: why the last GETDEL of a connection found what it found
  reads,        \* history: the keys get_record fetched for the query in hand
  text,         \* parse_query: query
  known_tables, \* parse_query: known_tables
  parsed,       \* what parse_query returned for text; NotParsed before the call
  main,         \* where main is: a startup step, "accept" (the loop) or "exit"
  ping,         \* what the store answered to the PING of main, "none" before
  exit_at,      \* history: the step of main that called process::exit
  accepted,     \* history: number of connections main accepted
  got,          \* history: what the last GET of a connection returned
  redis         \* Backend.redis: who holds the guard of the Mutex

vars == <<config, client_addr, ratelimit, auth, records, pc, query, allowed,
          query_type, cursor, keys, rw, response, qr_result, logged, ops, sent,
          rl_hist, window_age, tok_hist, qr_seen, reads, text, known_tables,
          parsed, main, ping, exit_at, accepted, got, redis>>

\* the state of main
main_vars == <<main, ping, exit_at, accepted>>

(* ------------------------------ the store ----------------------------- *)
NoKey == [count |-> 0, ttl |-> 0]

\* the script without its EXPIRE
LuaScript_NoExpire(rl, ip, window_secs) ==
  [rl EXCEPT ![ip] = [count |-> rl[ip].count + 1, ttl |-> rl[ip].ttl]]

\* the script with its EXPIRE outside the "if current == 1"
LuaScript_ExpireAlways(rl, ip, window_secs) ==
  [rl EXCEPT ![ip] = [count |-> rl[ip].count + 1, ttl |-> window_secs]]

\* rate_limit.rs: key = format!("ratelimit:{}", ip)
\* Lua: current = INCR key; if current == 1 then EXPIRE key window; return current
\* ttl 0 on an existing key means "no expiry"
LuaScript(rl, ip, window_secs) ==
  LET current == rl[ip].count + 1
  IN [rl EXCEPT ![ip] = [count |-> current,
                         ttl |-> IF current = 1 THEN window_secs ELSE rl[ip].ttl]]

\* ">=" in the place of ">"
RateDecision_OffByOne(count, limit) == ~(count >= limit)

\* the decision on the script's reply
RateDecision(count, limit) == ~(count > limit)

\* the script called and its reply awaited; out is the call's outcome:
\* [reply, store], reply 0 standing for Err(e)
invoke_async(rl, ip, window_secs, out) ==
  LET after == LuaScript(rl, ip, window_secs)
  IN [reply |-> IF out = "ok" THEN after[ip].count ELSE 0,
      store |-> IF out = "err" THEN rl ELSE after]

\* check_rate_limit that denies on a store error
check_rate_limit_FailClosed(rl, ip, limit, window_secs, out) ==
  IF limit = 0
  THEN [ret |-> TRUE, store |-> rl, called |-> FALSE]
  ELSE LET r == invoke_async(rl, ip, window_secs, out)
       IN [ret |-> IF out = "ok" THEN RateDecision(r.reply, limit) ELSE FALSE,
           store |-> r.store, called |-> TRUE]

\* check_rate_limit without its "if limit == 0"
check_rate_limit_NoDisable(rl, ip, limit, window_secs, out) ==
  LET r == invoke_async(rl, ip, window_secs, out)
  IN [ret |-> IF out = "ok" THEN RateDecision(r.reply, limit) ELSE TRUE,
      store |-> r.store, called |-> TRUE]

\* check_rate_limit: [ret, store, called]
check_rate_limit(rl, ip, limit, window_secs, out) ==
  IF limit = 0
  THEN [ret |-> TRUE, store |-> rl, called |-> FALSE]
  ELSE LET r == invoke_async(rl, ip, window_secs, out)
       IN [ret |-> IF out = "ok" THEN RateDecision(r.reply, limit) ELSE TRUE,
           store |-> r.store, called |-> TRUE]

\* the token used as the key
auth_key_NoPrefix(token) == token

\* verify_token: key = format!("auth:{}", token)
auth_key(token) == "auth:" \o token

\* the keys of the table namespaces after GETDEL key: the store has one key
\* space, a table key named by key goes with the command
del(recs, key) == [k \in DOMAIN recs |-> IF k = key THEN Absent ELSE recs[k]]

\* a GET in the place of the GETDEL: the key stays
GETDEL_KeepsKey(au, token) ==
  [value |-> au[token], store |-> au]

\* GETDEL key: the value read and the store after it, in one step
GETDEL(au, token) ==
  [value |-> au[token], store |-> [au EXCEPT ![token] = Absent]]

\* a deserializer that fills the fields it cannot read with defaults
AuthTokenFromStr_Lenient(json) ==
  IF json = GoodTokenJson
  THEN [ok |-> TRUE, user_id |-> "u001", facility |-> "fac-tokyo", data |-> None]
  ELSE [ok |-> TRUE, user_id |-> "", facility |-> "", data |-> None]

\* serde_json::from_str::<AuthToken>
AuthTokenFromStr(json) ==
  IF json = GoodTokenJson
  THEN [ok |-> TRUE, user_id |-> "u001", facility |-> "fac-tokyo", data |-> None]
  ELSE [ok |-> FALSE, user_id |-> None, facility |-> None, data |-> None]

not_found ==
  [verified |-> FALSE, user_id |-> None, facility |-> None,
   verified_at |-> None, data |-> None]

from_token(token) ==
  [verified |-> TRUE, user_id |-> token.user_id, facility |-> token.facility,
   verified_at |-> "now", data |-> token.data]

\* verify_token: [result, store]
verify_token(au, token, out) ==
  LET gd == GETDEL(au, token)
  IN IF out = "ok"
     THEN [result |-> IF gd.value = Absent
                      THEN not_found
                      ELSE IF AuthTokenFromStr(gd.value).ok
                           THEN from_token(AuthTokenFromStr(gd.value))
                           ELSE not_found,
           store |-> gd.store]
     ELSE [result |-> not_found,
           store |-> IF out = "lost" THEN gd.store ELSE au]

(* ----------------------------- responses ------------------------------ *)
NoResponse == [kind |-> "none", cols |-> "", rows |-> <<>>]
\* results.completed(OkResponse::default())
Ack == [kind |-> "ack", cols |-> "", rows |-> <<>>]
\* results.start(cols) ... rw.finish()
ResultSet(cols, rows) == [kind |-> "resultset", cols |-> cols, rows |-> rows]

\* the row written without looking at result.verified
write_qr_verify_result_AlwaysRow(result) ==
  ResultSet("qr_verify",
            << <<"0", result.user_id, result.facility,
                 result.verified_at, result.data>> >>)

\* write_qr_verify_result: one row when verified, no row otherwise
write_qr_verify_result(result) ==
  ResultSet("qr_verify",
            IF result.verified
            THEN << <<"1", result.user_id, result.facility,
                      result.verified_at, result.data>> >>
            ELSE <<>>)

(* ------------------------------ queries ------------------------------- *)
QT(type, table, pk_value, token, reason) ==
  [type |-> type, table |-> table, pk_value |-> pk_value, token |-> token,
   reason |-> reason]

NoQuery == QT("none", "", "", "", "")

\* the values of enum QueryType that parse_query can return for the texts sent
QueryTypes ==
  {QT("SelectVersion", "", "", "", ""), QT("ShowTables", "", "", "", ""),
   QT("SetOrUse", "", "", "", "")}
  \cup {QT("DescribeTable", t, "", "", "") : t \in Tables}
  \cup {QT("SelectByPk", t[1], t[2], "", "") : t \in Tables \X PKs}
  \cup {QT("SelectScan", t, "", "", "") : t \in Tables}
  \cup {QT("QrVerify", "", "", t, "") : t \in Tokens}
  \cup {QT("Rejected", "", "", "", r) : r \in {"unknown_query", "and_not_allowed"}}

\* one query text per arm of on_query
Queries ==
  {QT("SelectVersion", "", "", "", ""), QT("ShowTables", "", "", "", ""),
   QT("SetOrUse", "", "", "", ""), QT("DescribeTable", "users", "", "", ""),
   QT("SelectByPk", "users", "1", "", ""), QT("SelectScan", "users", "", "", ""),
   QT("QrVerify", "", "", "t1", ""), QT("Rejected", "", "", "", "unknown_query")}

RateQueries ==
  {QT("Rejected", "", "", "", "unknown_query"),
   QT("SelectVersion", "", "", "", "")}

\* the token texts a client sends: the tokens, and the name of a stored record
TokenTexts == Tokens \cup {"users.1"}

\* one text per arm that reaches the store, a token text of each kind
FrameQueries ==
  {QT("SelectByPk", "users", "1", "", ""), QT("SelectScan", "users", "", "", "")}
  \cup {QT("QrVerify", "", "", t, "") : t \in TokenTexts}

\* texts that parse_query rejects, for two reasons
RejectQueries == {qt \in QueryTypes : qt.type = "Rejected"}

AuthQueries == {qt \in QueryTypes : qt.type = "QrVerify"}
                 \cup {QT("Rejected", "", "", "", "unknown_query")}

ScanQueries == {qt \in QueryTypes : qt.type \in {"SelectScan", "SelectByPk"}}

Outcomes == {"ok", "err", "lost"}

(* --------------------------- query texts ------------------------------ *)
\* A text (&str, String) is the sequence of its UTF-8 bytes; an ASCII byte is
\* written as its character.  "C4" "B0" encode U+0130 (capital I with dot
\* above), whose lower case is "i" followed by U+0307, encoded "CC" "87".
Whitespace == {" ", "\t", "\n"}

\* the bytes that do not start a character
Continuation == {"B0", "87"}

ASCII_UPPERCASE ==
  <<"A", "B", "C", "D", "E", "F", "G", "H", "I", "J", "K", "L", "M", "N", "O", "P", "Q", "R", "S", "T", "U", "V", "W", "X", "Y", "Z">>

ASCII_LOWERCASE ==
  <<"a", "b", "c", "d", "e", "f", "g", "h", "i", "j", "k", "l", "m", "n", "o", "p", "q", "r", "s", "t", "u", "v", "w", "x", "y", "z">>

\* Option<usize>::None, Option<String>::None and a panic of a slice
NoPos == 0 - 1
NoneStr == <<"None">>
Panic == <<"panic">>

to_ascii_lowercase(b) ==
  IF \E i \in DOMAIN ASCII_UPPERCASE : ASCII_UPPERCASE[i] = b
  THEN ASCII_LOWERCASE[CHOOSE i \in DOMAIN ASCII_UPPERCASE : ASCII_UPPERCASE[i] = b]
  ELSE b

to_ascii_uppercase(b) ==
  IF \E i \in DOMAIN ASCII_LOWERCASE : ASCII_LOWERCASE[i] = b
  THEN ASCII_UPPERCASE[CHOOSE i \in DOMAIN ASCII_LOWERCASE : ASCII_LOWERCASE[i] = b]
  ELSE b

\* str::to_lowercase: character by character; the lower case of a character
\* may take more bytes than the character
RECURSIVE to_lowercase(_)
to_lowercase(s) ==
  IF s = <<>> THEN <<>>
  ELSE IF Len(s) >= 2 /\ s[1] = "C4" /\ s[2] = "B0"
       THEN <<"i", "CC", "87">> \o to_lowercase(SubSeq(s, 3, Len(s)))
       ELSE <<to_ascii_lowercase(Head(s))>> \o to_lowercase(Tail(s))

RECURSIVE trim_start(_)
trim_start(s) ==
  IF s # <<>> /\ Head(s) \in Whitespace THEN trim_start(Tail(s)) ELSE s

RECURSIVE trim_end(_)
trim_end(s) ==
  IF s # <<>> /\ s[Len(s)] \in Whitespace
  THEN trim_end(SubSeq(s, 1, Len(s) - 1))
  ELSE s

trim(s) == trim_end(trim_start(s))

starts_with(s, pat) == Len(s) >= Len(pat) /\ SubSeq(s, 1, Len(pat)) = pat

\* str::find: the byte offset of the first match, or None
find(s, pat) ==
  LET at == {i \in 0..(Len(s) - Len(pat)) : SubSeq(s, i + 1, i + Len(pat)) = pat}
  IN IF at = {} THEN NoPos ELSE CHOOSE i \in at : \A j \in at : i <= j

contains(s, pat) == find(s, pat) # NoPos

is_char_boundary(s, index) ==
  \/ index = 0
  \/ index = Len(s)
  \/ index < Len(s) /\ s[index + 1] \notin Continuation

\* &s[begin..]: panics when begin is past the end or inside a character
slice_from(s, begin) ==
  IF begin <= Len(s) /\ is_char_boundary(s, begin)
  THEN SubSeq(s, begin + 1, Len(s))
  ELSE Panic

\* s starts with the quote q: let end = s[1..].find(q)?; Some(s[1..1 + end])
quoted(s, q) ==
  LET end == find(Tail(s), <<q>>)
  IN IF end = NoPos THEN NoneStr ELSE SubSeq(s, 2, 1 + end)

\* after_eq.chars().take_while(|c| !c.is_whitespace()).collect()
RECURSIVE take_while_not_whitespace(_)
take_while_not_whitespace(s) ==
  IF s = <<>> \/ Head(s) \in Whitespace THEN <<>>
  ELSE <<Head(s)>> \o take_while_not_whitespace(Tail(s))

(* ----------------------------- parse_query ---------------------------- *)
\* a QueryType of parse_query: table, pk_value and token are texts
NotParsed == QT("none", <<>>, <<>>, <<>>, "")
Aborted == QT("panic", <<>>, <<>>, <<>>, "")
Rejected(reason) == QT("Rejected", <<>>, <<>>, <<>>, reason)

\* check_rejected_patterns, "Write operations": keyword and reason, in order
WriteOperations ==
  << <<<<"i", "n", "s", "e", "r", "t">>, "insert_not_allowed">>, <<<<"u", "p", "d", "a", "t", "e">>, "update_not_allowed">>,
     <<<<"d", "e", "l", "e", "t", "e">>, "delete_not_allowed">>, <<<<"d", "r", "o", "p">>, "drop_not_allowed">>,
     <<<<"t", "r", "u", "n", "c", "a", "t", "e">>, "truncate_not_allowed">>, <<<<"a", "l", "t", "e", "r">>, "alter_not_allowed">>,
     <<<<"c", "r", "e", "a", "t", "e">>, "create_not_allowed">> >>

\* check_rejected_patterns, "Dangerous WHERE patterns": the patterns of one
\* "if" and its reason, in order
WherePatterns ==
  << <<{<<" ", "a", "n", "d", " ">>}, "and_not_allowed">>,
     <<{<<" ", "o", "r", " ">>}, "or_not_allowed">>,
     <<{<<" ", "i", "n", " ">>, <<" ", "i", "n", "(">>}, "in_not_allowed">>,
     <<{<<" ", "l", "i", "k", "e", " ">>}, "like_not_allowed">>,
     <<{<<" ", ">", " ">>, <<" ", "<", " ">>}, "comparison_not_allowed">>,
     <<{<<" ", ">", "=", " ">>, <<" ", "<", "=", " ">>}, "comparison_not_allowed">>,
     <<{<<" ", "<", ">", " ">>, <<" ", "!", "=", " ">>}, "comparison_not_allowed">>,
     <<{<<" ", "b", "e", "t", "w", "e", "e", "n", " ">>}, "between_not_allowed">> >>

\* check_rejected_patterns, JOIN to UNION: pattern and reason, in order
ClausePatterns ==
  << <<{<<" ", "j", "o", "i", "n", " ">>}, "join_not_allowed">>,
     <<{<<" ", "o", "r", "d", "e", "r", " ", "b", "y", " ">>}, "order_by_not_allowed">>,
     <<{<<" ", "g", "r", "o", "u", "p", " ", "b", "y", " ">>}, "group_by_not_allowed">>,
     <<{<<" ", "l", "i", "m", "i", "t", " ">>}, "limit_not_allowed">>,
     <<{<<" ", "o", "f", "f", "s", "e", "t", " ">>}, "offset_not_allowed">>,
     <<{<<"(", "s", "e", "l", "e", "c", "t">>}, "subquery_not_allowed">>,
     <<{<<" ", "u", "n", "i", "o", "n", " ">>}, "union_not_allowed">> >>

\* the reason of the first entry of rules one of whose patterns occurs in s
first_contained(s, rules) ==
  LET hit == {i \in DOMAIN rules : \E pat \in rules[i][1] : contains(s, pat)}
  IN IF hit = {} THEN None
     ELSE rules[CHOOSE i \in hit : \A j \in hit : i <= j][2]

\* check_rejected_patterns: Some(reason) or None
check_rejected_patterns(query_lower) ==
  LET write == {i \in DOMAIN WriteOperations :
                  starts_with(query_lower, WriteOperations[i][1])}
      in_where == IF contains(query_lower, <<"w", "h", "e", "r", "e">>)
                  THEN first_contained(query_lower, WherePatterns)
                  ELSE None
  IN IF write # {}
     THEN WriteOperations[CHOOSE i \in write : \A j \in write : i <= j][2]
     ELSE IF in_where # None THEN in_where
     ELSE first_contained(query_lower, ClausePatterns)

\* the value after the opening parenthesis or the "=": quoted by ' or by "
\* up to the closing quote, None for any other start
quoted_value(s) ==
  IF starts_with(s, <<"'">>) THEN quoted(s, "'")
  ELSE IF starts_with(s, <<"\"">>) THEN quoted(s, "\"")
  ELSE NoneStr

\* parse_qr_verify: Some(token) or None
parse_qr_verify(query_lower, query_original) ==
  IF ~contains(query_lower, <<"q", "r", "_", "v", "e", "r", "i", "f", "y">>) THEN NoneStr
  ELSE LET found == find(query_original, <<"q", "r", "_", "v", "e", "r", "i", "f", "y", "(">>)
       IN IF found = NoPos THEN NoneStr
          ELSE LET after_paren == slice_from(query_original, found + 10)
               IN IF after_paren = Panic THEN Panic
                  ELSE quoted_value(after_paren)

\* parse_where_pk: Some(value), None, or Panic when a slice of the original
\* text at a position found in the lower-cased text panics
parse_where_pk(sql, pk_field) ==
  LET query_lower == to_lowercase(sql)
      pk_lower == to_lowercase(pk_field)
      where_pos == find(query_lower, <<"w", "h", "e", "r", "e">>)
      after_where == slice_from(sql, where_pos + 5)
      after_lower == to_lowercase(after_where)
      pk_pos == find(after_lower, pk_lower)
      sliced == slice_from(after_where, pk_pos + Len(pk_field))
      after_pk == trim_start(sliced)
      after_eq == trim_start(Tail(after_pk))
      value == take_while_not_whitespace(after_eq)
  IN IF where_pos = NoPos THEN NoneStr
     ELSE IF after_where = Panic THEN Panic
     ELSE IF pk_pos = NoPos THEN NoneStr
     ELSE IF sliced = Panic THEN Panic
     ELSE IF ~starts_with(after_pk, <<"=">>) THEN NoneStr
     ELSE IF starts_with(after_eq, <<"'">>) \/ starts_with(after_eq, <<"\"">>)
          THEN quoted_value(after_eq)
          ELSE IF value = <<>> THEN NoneStr ELSE value

\* parse_query, "Handle DESCRIBE": for table in known_tables
RECURSIVE describe_tables(_, _)
describe_tables(query_lower, tables) ==
  IF tables = <<>> THEN NotParsed
  ELSE IF query_lower = <<"d", "e", "s", "c", "r", "i", "b", "e", " ">> \o Head(tables)
          \/ query_lower = <<"d", "e", "s", "c", " ">> \o Head(tables)
       THEN QT("DescribeTable", Head(tables), <<>>, <<>>, "")
       ELSE describe_tables(query_lower, Tail(tables))

\* the loop returning the name of the table as the text writes it
RECURSIVE select_tables_NameFromText(_, _, _)
select_tables_NameFromText(query_trimmed, query_lower, tables) ==
  IF tables = <<>> THEN Rejected("unknown_query")
  ELSE IF ~contains(query_lower, Head(tables))
       THEN select_tables_NameFromText(query_trimmed, query_lower, Tail(tables))
       ELSE LET pk_value == parse_where_pk(query_trimmed, <<"i", "d">>)
                at == find(query_lower, Head(tables))
                table == SubSeq(query_trimmed, at + 1, at + Len(Head(tables)))
            IN IF pk_value = Panic THEN Aborted
               ELSE IF pk_value # NoneStr
                    THEN QT("SelectByPk", table, pk_value, <<>>, "")
               ELSE IF ~contains(query_lower, <<"w", "h", "e", "r", "e">>)
                    THEN QT("SelectScan", table, <<>>, <<>>, "")
               ELSE select_tables_NameFromText(query_trimmed, query_lower, Tail(tables))

\* parse_query, "Handle SELECT queries": for table in known_tables
RECURSIVE select_tables(_, _, _)
select_tables(query_trimmed, query_lower, tables) ==
  IF tables = <<>> THEN Rejected("unknown_query")
  ELSE IF ~contains(query_lower, Head(tables))
       THEN select_tables(query_trimmed, query_lower, Tail(tables))
       ELSE LET pk_value == parse_where_pk(query_trimmed, <<"i", "d">>)
            IN IF pk_value = Panic THEN Aborted
               ELSE IF pk_value # NoneStr
                    THEN QT("SelectByPk", Head(tables), pk_value, <<>>, "")
               ELSE IF ~contains(query_lower, <<"w", "h", "e", "r", "e">>)
                    THEN QT("SelectScan", Head(tables), <<>>, <<>>, "")
               ELSE select_tables(query_trimmed, query_lower, Tail(tables))

\* parse_query: the QueryType, or Aborted when the call panics
parse_query(sql, known) ==
  LET query_trimmed == trim(sql)
      query_lower == to_lowercase(query_trimmed)
      describe == describe_tables(query_lower, known)
      token == parse_qr_verify(query_lower, query_trimmed)
      reason == check_rejected_patterns(query_lower)
  IN IF starts_with(query_lower, <<"s", "e", "t", " ">>) \/ starts_with(query_lower, <<"u", "s", "e", " ">>)
     THEN QT("SetOrUse", <<>>, <<>>, <<>>, "")
     ELSE IF contains(query_lower, <<"@", "@", "v", "e", "r", "s", "i", "o", "n">>)
     THEN QT("SelectVersion", <<>>, <<>>, <<>>, "")
     ELSE IF query_lower = <<"s", "h", "o", "w", " ", "t", "a", "b", "l", "e", "s">>
     THEN QT("ShowTables", <<>>, <<>>, <<>>, "")
     ELSE IF describe # NotParsed THEN describe
     ELSE IF token = Panic THEN Aborted
     ELSE IF token # NoneStr THEN QT("QrVerify", <<>>, <<>>, token, "")
     ELSE IF reason # None THEN Rejected(reason)
     ELSE IF starts_with(query_lower, <<"s", "e", "l", "e", "c", "t">>)
     THEN select_tables(query_trimmed, query_lower, known)
     ELSE Rejected("unknown_query")

(* --------------------------- the texts parsed ------------------------- *)
\* words.join(sep)
RECURSIVE join(_, _)
join(words, sep) ==
  IF words = <<>> THEN <<>>
  ELSE IF Len(words) = 1 THEN Head(words)
  ELSE Head(words) \o sep \o join(Tail(words), sep)

\* the text with its keywords and names in upper case: every letter outside a
\* quoted value; open is the quote of the value the text is in, "" outside
RECURSIVE to_uppercase_unquoted(_, _)
to_uppercase_unquoted(s, open) ==
  IF s = <<>> THEN <<>>
  ELSE IF open = ""
       THEN <<to_ascii_uppercase(Head(s))>>
            \o to_uppercase_unquoted(Tail(s),
                 IF Head(s) \in {"'", "\""} THEN Head(s) ELSE "")
       ELSE <<Head(s)>>
            \o to_uppercase_unquoted(Tail(s), IF Head(s) = open THEN "" ELSE open)

\* the same, in lower case
RECURSIVE to_lowercase_unquoted(_, _)
to_lowercase_unquoted(s, open) ==
  IF s = <<>> THEN <<>>
  ELSE IF open = ""
       THEN <<to_ascii_lowercase(Head(s))>>
            \o to_lowercase_unquoted(Tail(s),
                 IF Head(s) \in {"'", "\""} THEN Head(s) ELSE "")
       ELSE <<Head(s)>>
            \o to_lowercase_unquoted(Tail(s), IF Head(s) = open THEN "" ELSE open)

\* what a select names: a column list, the version variable, a call of
\* qr_verify (the last with no closing quote), a non-ASCII name
Targets ==
  {<<<<"*">>>>, <<<<"@", "@", "v", "e", "r", "s", "i", "o", "n">>>>, <<<<"q", "r", "_", "v", "e", "r", "i", "f", "y", "(", "'", "a", "b", "c", "'", ")">>>>, <<<<"q", "r", "_", "v", "e", "r", "i", "f", "y", "(", "\"", "a", "b", "c", "\"", ")">>>>,
   <<<<"q", "r", "_", "v", "e", "r", "i", "f", "y", "(", "'", "a", "b", "c">>>>, <<<<"C4", "B0">>>>}

Froms == {<<>>, <<<<"f", "r", "o", "m">>, <<"u", "s", "e", "r", "s">>>>, <<<<"f", "r", "o", "m">>, <<"u", "s", "e", "r", "s", ",", "o", "r", "d", "e", "r", "s">>>>}

\* where clauses: none, cut after the keyword, on the primary key with a
\* quoted, a bare and an unclosed value, on another column, on a column whose
\* name ends with the name of the primary key, on the primary key with an
\* empty quoted value
Conds ==
  {<<<<"w", "h", "e", "r", "e">>, <<"v", "a", "l", "i", "d">>, <<"=">>, <<"1">>>>, <<<<"w", "h", "e", "r", "e">>, <<"i", "d">>, <<"=">>, <<"'", "'">>>>,
   <<>>, <<<<"w", "h", "e", "r", "e">>>>, <<<<"w", "h", "e", "r", "e">>, <<"i", "d">>, <<"=">>, <<"'", "1", "'">>>>, <<<<"w", "h", "e", "r", "e">>, <<"i", "d">>, <<"=">>, <<"1">>>>,
   <<<<"w", "h", "e", "r", "e">>, <<"i", "d">>, <<"=">>, <<"'", "1">>>>, <<<<"w", "h", "e", "r", "e">>, <<"n", "a", "m", "e">>, <<"=">>, <<"'", "x", "'">>>>}

\* the constructs check_rejected_patterns looks for, as they follow a select
Extras ==
  {<<<<"a", "n", "d">>, <<"n", "a", "m", "e">>, <<"=">>, <<"'", "x", "'">>>>, <<<<"o", "r">>, <<"n", "a", "m", "e">>, <<"=">>, <<"'", "x", "'">>>>,
   <<<<"i", "n">>, <<"(", "'", "1", "'", ")">>>>, <<<<"i", "n", "(", "'", "1", "'", ")">>>>, <<<<"l", "i", "k", "e">>, <<"'", "x", "'">>>>,
   <<<<"b", "e", "t", "w", "e", "e", "n">>, <<"'", "1", "'">>, <<"a", "n", "d">>, <<"'", "2", "'">>>>, <<<<"j", "o", "i", "n">>, <<"o", "r", "d", "e", "r", "s">>>>,
   <<<<"o", "r", "d", "e", "r">>, <<"b", "y">>, <<"i", "d">>>>, <<<<"g", "r", "o", "u", "p">>, <<"b", "y">>, <<"i", "d">>>>, <<<<"l", "i", "m", "i", "t">>, <<"1">>>>,
   <<<<"o", "f", "f", "s", "e", "t">>, <<"1">>>>, <<<<"(", "s", "e", "l", "e", "c", "t">>, <<"1", ")">>>>, <<<<"u", "n", "i", "o", "n">>, <<"s", "e", "l", "e", "c", "t">>, <<"1">>>>}

Comparisons == {<<">">>, <<"<">>, <<">", "=">>, <<"<", "=">>, <<"<", ">">>, <<"!", "=">>}

\* what follows a write keyword
Writes ==
  {<<<<"u", "s", "e", "r", "s">>>>, <<<<"u", "s", "e", "r", "s">>, <<"s", "e", "t">>, <<"n", "a", "m", "e">>, <<"=">>, <<"'", "@", "@", "v", "e", "r", "s", "i", "o", "n", "'">>>>,
   <<<<"f", "r", "o", "m">>, <<"u", "s", "e", "r", "s">>, <<"w", "h", "e", "r", "e">>, <<"t", "o", "k", "e", "n">>, <<"=">>, <<"q", "r", "_", "v", "e", "r", "i", "f", "y", "(", "'", "a", "b", "c", "'", ")">>>>}

SelectFrom == <<<<"s", "e", "l", "e", "c", "t">>, <<"*">>, <<"f", "r", "o", "m">>, <<"u", "s", "e", "r", "s">>>>

\* the statements sent, word by word
Statements ==
  {<<<<"s", "e", "l", "e", "c", "t">>>> \o t \o f \o c : t \in Targets, f \in Froms, c \in Conds}
  \cup {SelectFrom \o c \o e : c \in {<<>>, <<<<"w", "h", "e", "r", "e">>, <<"i", "d">>, <<"=">>, <<"'", "1", "'">>>>},
                               e \in Extras}
  \cup {SelectFrom \o <<<<"w", "h", "e", "r", "e">>, <<"i", "d">>, op, <<"'", "1", "'">>>> : op \in Comparisons}
  \cup {<<WriteOperations[i][1]>> \o w : i \in DOMAIN WriteOperations, w \in Writes}
  \cup {<<>>, <<<<"s", "h", "o", "w">>, <<"t", "a", "b", "l", "e", "s">>>>, <<<<"s", "h", "o", "w">>, <<"d", "a", "t", "a", "b", "a", "s", "e", "s">>>>,
        <<<<"d", "e", "s", "c", "r", "i", "b", "e">>, <<"u", "s", "e", "r", "s">>>>, <<<<"d", "e", "s", "c">>, <<"u", "s", "e", "r", "s">>>>, <<<<"d", "e", "s", "c", "r", "i", "b", "e">>, <<"o", "r", "d", "e", "r", "s">>>>,
        <<<<"s", "e", "t">>, <<"n", "a", "m", "e", "s">>, <<"u", "t", "f", "8">>>>, <<<<"u", "s", "e">>, <<"d", "b">>>>}

Separators == {<<" ">>, <<"\t">>}

\* 0 to n spaces
RECURSIVE spaces(_)
spaces(n) == IF n = 0 THEN <<>> ELSE <<" ">> \o spaces(n - 1)

\* the texts: every statement, its words separated by spaces or by tabs, as
\* written or with keywords and names in upper case, with or without
\* surrounding spaces
Texts ==
  {spaces(pad) \o (IF upper THEN to_uppercase_unquoted(join(st, sep), "")
                   ELSE join(st, sep)) \o spaces(pad) :
     st \in Statements, sep \in Separators, upper \in BOOLEAN, pad \in 0..MaxPad}

\* Backend::table_names: the keys of the schema map, in the map's order
TableLists == {<<<<"u", "s", "e", "r", "s">>>>, <<<<"u", "s", "e", "r", "s">>, <<"o", "r", "d", "e", "r", "s">>>>, <<<<"o", "r", "d", "e", "r", "s">>, <<"u", "s", "e", "r", "s">>>>}

(* ------------------------------- scans -------------------------------- *)
\* key of a stored record: format!("{}.{}", table, pk_value)
UserKey(table, pk_value) == table \o "." \o pk_value

UserKeys == {UserKey(t[1], t[2]) : t \in Tables \X PKs}

\* key.strip_prefix(&format!("{}.", table)).unwrap_or(&key)
strip_prefix(key, table) ==
  IF \E pk \in PKs : UserKey(table, pk) = key
  THEN CHOOSE pk \in PKs : UserKey(table, pk) = key
  ELSE key

\* a deserializer that fills the fields it cannot read with defaults
UserRecordFromStr_Lenient(json) ==
  IF json = GoodRecordJson
  THEN [ok |-> TRUE, name |-> "name", email |-> "email", age |-> "age",
        created_at |-> "created_at"]
  ELSE [ok |-> TRUE, name |-> "", email |-> "", age |-> "", created_at |-> ""]

\* serde_json::from_str::<UserRecord>
UserRecordFromStr(json) ==
  IF json = GoodRecordJson
  THEN [ok |-> TRUE, name |-> "name", email |-> "email", age |-> "age",
        created_at |-> "created_at"]
  ELSE [ok |-> FALSE, name |-> None, email |-> None, age |-> None,
        created_at |-> None]

\* the row with no primary-key column of its own: the name comes first
UserRow_PkFromPayload(pk_value, record) ==
  <<record.name, record.name, record.email, record.age, record.created_at>>

\* rw.write_col(pk_value), then the fields of the record
UserRow(pk_value, record) ==
  <<pk_value, record.name, record.email, record.age, record.created_at>>

\* the keyspace as SCAN walks it: slot i holds users.{i} when that key exists.
\* SCAN cursor MATCH users.* COUNT 100 visits slots cur+1..upto and reports the
\* matching keys among them; the cursor is 0 again after the last slot.
RECURSIVE SlotKeys(_, _, _, _)
SlotKeys(recs, table, from, upto) ==
  IF from > upto
  THEN <<>>
  ELSE LET k == UserKey(table, ToString(from))
       IN (IF recs[k] # Absent THEN <<k>> ELSE <<>>)
          \o SlotKeys(recs, table, from + 1, upto)

SCAN(recs, table, cur, upto) ==
  [cursor |-> IF upto = MaxKeys THEN 0 ELSE upto,
   batch |-> SlotKeys(recs, table, cur + 1, upto)]

\* the break without the truncate
ApplyLimit_NoTruncate(ks, limit) ==
  IF limit > 0 /\ Len(ks) >= limit
  THEN [keys |-> ks, brk |-> TRUE]
  ELSE [keys |-> ks, brk |-> FALSE]

\* get_all_keys, "Apply limit": [keys, brk]
ApplyLimit(ks, limit) ==
  IF limit > 0 /\ Len(ks) >= limit
  THEN [keys |-> SubSeq(ks, 1, limit), brk |-> TRUE]
  ELSE [keys |-> ks, brk |-> FALSE]

\* the loop going on after a SCAN error
get_all_keys_step_RetriesOnError(recs, table, limit, cur, ks, upto, out) ==
  IF out = "ok"
  THEN LET r == SCAN(recs, table, cur, upto)
           lim == ApplyLimit(ks \o r.batch, limit)
       IN [keys |-> lim.keys, cursor |-> r.cursor,
           done |-> lim.brk \/ r.cursor = 0]
  ELSE [keys |-> <<>>, cursor |-> cur, done |-> FALSE]

\* the loop left on a SCAN error with the keys collected so far
get_all_keys_step_KeepsKeys(recs, table, limit, cur, ks, upto, out) ==
  IF out = "ok"
  THEN LET r == SCAN(recs, table, cur, upto)
           lim == ApplyLimit(ks \o r.batch, limit)
       IN [keys |-> lim.keys, cursor |-> r.cursor,
           done |-> lim.brk \/ r.cursor = 0]
  ELSE [keys |-> ks, cursor |-> cur, done |-> TRUE]

\* one turn of the loop of get_all_keys: [keys, cursor, done]
get_all_keys_step(recs, table, limit, cur, ks, upto, out) ==
  IF out = "ok"
  THEN LET r == SCAN(recs, table, cur, upto)
           lim == ApplyLimit(ks \o r.batch, limit)
       IN [keys |-> lim.keys, cursor |-> r.cursor,
           done |-> lim.brk \/ r.cursor = 0]
  ELSE [keys |-> <<>>, cursor |-> cur, done |-> TRUE]

\* get_record: Some(json) or None
get_record(recs, key, out) ==
  IF out = "ok" /\ key \in DOMAIN recs THEN recs[key] ELSE Absent

(* ------------------------------ the mutex ----------------------------- *)
\* tokio::sync::Mutex: lock().await returns its guard once the mutex is
\* unlocked; the mutex is unlocked when the guard is dropped
Unlocked == "unlocked"

\* the guard of the rate limit check living to the end of on_query
rate_limit_block_GuardKept(p) == IF p = "idle" THEN Unlocked ELSE "on_query"

\* on_query, the block of "Rate limit check": conn is dropped at the end of
\* the block, and at its return; p is where on_query is suspended next
rate_limit_block(p) == Unlocked

\* get_all_keys: conn is held over the turns of the loop and dropped when
\* the function returns
get_all_keys_guard(done) == IF done THEN Unlocked ELSE "get_all_keys"

(* ------------------------------- Init --------------------------------- *)
Configs ==
  [rate_limit : 0..MaxLimit, rate_window : 1..MaxWindow,
   scan_limit : 0..MaxScanLimit, allow_scan : BOOLEAN]

\* the connections come from one address or from two
Addrs == {a \in [Conns -> IPs] : a["c1"] = "10.0.0.1"}

OneAddr == [c \in Conns |-> "10.0.0.1"]

NoReplies == [allowed |-> 0, denied |-> 0, errs |-> FALSE]

NoHist == [issued |-> "never", attempts |-> 0, successes |-> 0,
           errs |-> FALSE, expired |-> FALSE]

\* parse_query was not called
NoText ==
  /\ text = <<>>
  /\ known_tables = <<<<"u", "s", "e", "r", "s">>>>
  /\ parsed = NotParsed

\* main is in its accept loop and has accepted every connection
Serving ==
  /\ main = "accept"
  /\ ping = "PONG"
  /\ exit_at = "none"
  /\ accepted = Cardinality(Conns)

InitConns ==
  /\ pc = [c \in Conns |-> "idle"]
  /\ query = [c \in Conns |-> NoQuery]
  /\ allowed = [c \in Conns |-> TRUE]
  /\ query_type = [c \in Conns |-> NoQuery]
  /\ qr_seen = [c \in Conns |-> "none"]
  /\ cursor = [c \in Conns |-> 0]
  /\ keys = [c \in Conns |-> <<>>]
  /\ rw = [c \in Conns |-> <<>>]
  /\ response = [c \in Conns |-> NoResponse]
  /\ qr_result = [c \in Conns |-> not_found]
  /\ logged = [c \in Conns |-> "none"]
  /\ ops = [c \in Conns |-> {}]
  /\ reads = [c \in Conns |-> {}]
  /\ got = [c \in Conns |-> "none"]
  /\ redis = [c \in Conns |-> Unlocked]
  /\ sent = 0
  /\ Serving

InitStore ==
  /\ ratelimit = [ip \in IPs |-> NoKey]
  /\ rl_hist = [ip \in IPs |-> NoReplies]
  /\ window_age = [ip \in IPs |-> 0]

\* no token was issued yet
NoTokens ==
  /\ auth = [t \in Tokens |-> Absent]
  /\ tok_hist = [t \in Tokens |-> NoHist]

\* every token was issued, with a well-formed payload
AllTokens ==
  /\ auth = [t \in Tokens |-> GoodTokenJson]
  /\ tok_hist = [t \in Tokens |-> [NoHist EXCEPT !.issued = GoodTokenJson]]

\* the stored records of the rate-limit and token specifications:
\* users.1 is a record, users.2 does not parse, no other key exists
SomeRecords ==
  [k \in UserKeys |->
     IF k = UserKey("users", "1") THEN GoodRecordJson
     ELSE IF k = UserKey("users", "2") THEN BadJson ELSE Absent]

\* every arm: every limit, a window of one second, scans allowed with a cap
\* of 2, the tokens issued
Init ==
  /\ config \in {cf \in Configs : cf.allow_scan /\ cf.scan_limit = 2
                                   /\ cf.rate_window = 1}
  /\ client_addr = OneAddr
  /\ records = SomeRecords
  /\ InitConns
  /\ InitStore
  /\ AllTokens
  /\ NoText

\* rate limiting: every limit and window, connections from one address or two
InitRate ==
  /\ config \in {cf \in Configs : cf.allow_scan /\ cf.scan_limit = 1}
  /\ client_addr \in Addrs
  /\ records = SomeRecords
  /\ InitConns
  /\ InitStore
  /\ AllTokens
  /\ NoText

\* token verification: rate limiting disabled, no token issued yet
InitAuth ==
  /\ config \in {cf \in Configs : cf.allow_scan /\ cf.scan_limit = 1
                                   /\ cf.rate_limit = 0 /\ cf.rate_window = 1}
  /\ client_addr = OneAddr
  /\ records = SomeRecords
  /\ InitConns
  /\ InitStore
  /\ NoTokens
  /\ NoText

\* scans: every cap, scanning allowed or not, every content of the table
InitScan ==
  /\ config \in {cf \in Configs : cf.rate_limit = 0 /\ cf.rate_window = 1}
  /\ client_addr = OneAddr
  /\ records \in [UserKeys -> {Absent, GoodRecordJson, BadJson}]
  /\ InitConns
  /\ InitStore
  /\ NoTokens
  /\ NoText

\* scans while the table changes: scanning allowed, every cap, every content
\* of the table
InitSkew ==
  /\ config \in {cf \in Configs : cf.allow_scan /\ cf.rate_limit = 0
                                   /\ cf.rate_window = 1}
  /\ client_addr = OneAddr
  /\ records \in [UserKeys -> {Absent, GoodRecordJson, BadJson}]
  /\ InitConns
  /\ InitStore
  /\ NoTokens
  /\ NoText

\* the scan-enable flag: scanning allowed or not, every limit
InitFlag ==
  /\ config \in {cf \in Configs : cf.scan_limit = 1 /\ cf.rate_window = 1}
  /\ client_addr = OneAddr
  /\ records = SomeRecords
  /\ InitConns
  /\ InitStore
  /\ NoTokens
  /\ NoText

\* the mutex: a limit of 2, scans allowed with a cap of 2, the tokens issued
InitLock ==
  /\ config \in {cf \in Configs : cf.allow_scan /\ cf.scan_limit = 2
                                   /\ cf.rate_limit = 2 /\ cf.rate_window = 1}
  /\ client_addr = OneAddr
  /\ records = SomeRecords
  /\ InitConns
  /\ InitStore
  /\ AllTokens
  /\ NoText

\* rejections: every limit, a window of one second, one address
InitReject ==
  /\ config \in {cf \in Configs : cf.allow_scan /\ cf.scan_limit = 1
                                   /\ cf.rate_window = 1}
  /\ client_addr = OneAddr
  /\ records = SomeRecords
  /\ InitConns
  /\ InitStore
  /\ AllTokens
  /\ NoText

\* the stored records under every kind of query: rate limiting disabled, the
\* tokens issued, no token under the name of a record
InitFrame ==
  /\ config \in {cf \in Configs : cf.allow_scan /\ cf.scan_limit = 1
                                   /\ cf.rate_limit = 0 /\ cf.rate_window = 1}
  /\ client_addr = OneAddr
  /\ records = SomeRecords
  /\ InitConns
  /\ InitStore
  /\ auth = [t \in TokenTexts |-> IF t \in Tokens THEN GoodTokenJson ELSE Absent]
  /\ tok_hist = [t \in TokenTexts |->
                   IF t \in Tokens THEN [NoHist EXCEPT !.issued = GoodTokenJson]
                   ELSE NoHist]
  /\ NoText

\* the process starts: no connection was accepted
InitMain ==
  /\ main = "set_global_default"
  /\ ping = "none"
  /\ exit_at = "none"
  /\ accepted = 0
  /\ config \in {cf \in Configs : cf.allow_scan /\ cf.scan_limit = 1
                                   /\ cf.rate_window = 1}
  /\ client_addr = OneAddr
  /\ records = SomeRecords
  /\ pc = [c \in Conns |-> "unaccepted"]
  /\ query = [c \in Conns |-> NoQuery]
  /\ allowed = [c \in Conns |-> TRUE]
  /\ query_type = [c \in Conns |-> NoQuery]
  /\ qr_seen = [c \in Conns |-> "none"]
  /\ cursor = [c \in Conns |-> 0]
  /\ keys = [c \in Conns |-> <<>>]
  /\ rw = [c \in Conns |-> <<>>]
  /\ response = [c \in Conns |-> NoResponse]
  /\ qr_result = [c \in Conns |-> not_found]
  /\ logged = [c \in Conns |-> "none"]
  /\ ops = [c \in Conns |-> {}]
  /\ reads = [c \in Conns |-> {}]
  /\ got = [c \in Conns |-> "none"]
  /\ redis = [c \in Conns |-> Unlocked]
  /\ sent = 0
  /\ InitStore
  /\ AllTokens
  /\ NoText

\* the classifier alone: every text, every list of known tables
InitParse ==
  /\ text \in Texts
  /\ known_tables \in TableLists
  /\ parsed = NotParsed
  /\ config \in {cf \in Configs : cf.allow_scan /\ cf.scan_limit = 1
                                   /\ cf.rate_limit = 0 /\ cf.rate_window = 1}
  /\ client_addr = OneAddr
  /\ records = SomeRecords
  /\ InitConns
  /\ InitStore
  /\ NoTokens

(* ------------------------------ on_query ------------------------------ *)
Step(p, q, r, l) == [pc |-> p, query_type |-> q, response |-> r, logged |-> l]

\* the Rejected arm answering with the reason
reject_SendsReason(qt) ==
  Step("idle", qt, [kind |-> "error", cols |-> qt.reason, rows |-> <<>>], "rejected")

\* on_query, Rejected arm: the reason goes to the log (tracing::warn!), the
\* client gets OkResponse::default()
reject(qt) == Step("idle", qt, Ack, "rejected")

\* on_query, match query_type: the arms that issue no store command answer at
\* once; the others suspend at their first store command
dispatch(qt, allow_scan) ==
  CASE qt.type = "SelectVersion" ->
         Step("idle", qt, ResultSet("@@version", << <<VERSION>> >>), "version")
    [] qt.type = "SetOrUse" -> Step("idle", qt, Ack, "set_use")
    [] qt.type = "ShowTables" ->
         Step("idle", qt, ResultSet("Tables_in_db", << <<"users">> >>), "show_tables")
    [] qt.type = "DescribeTable" ->
         Step("idle", qt,
              ResultSet("Field,Type,Key",
                        << <<"id", "varchar(255)", "PRI">>,
                           <<"name", "varchar(255)", "">>,
                           <<"email", "varchar(255)", "">>,
                           <<"age", "int", "">>,
                           <<"created_at", "datetime", "">> >>),
              "describe")
    [] qt.type = "SelectByPk" -> Step("get_record", qt, NoResponse, "none")
    [] qt.type = "SelectScan" ->
         IF ~allow_scan
         THEN Step("idle", qt, Ack, "scan_rejected")
         ELSE Step("get_all_keys", qt, NoResponse, "none")
    [] qt.type = "QrVerify" -> Step("verify_token", qt, NoResponse, "none")
    [] OTHER -> reject(qt)

\* the SelectScan arm without its look at config.allow_scan
after_rate_limit_ScanAlways(allow, qt, allow_scan) ==
  IF ~allow
  THEN Step("idle", NoQuery, Ack, "rate_limited")
  ELSE dispatch(qt, TRUE)

\* the rate limit check without its return
after_rate_limit_FallsThrough(allow, qt, allow_scan) ==
  dispatch(qt, allow_scan)

\* on_query, "Rate limit check": a denied query is acknowledged before
\* parse_query is called
after_rate_limit(allow, qt, allow_scan) ==
  IF ~allow
  THEN Step("idle", NoQuery, Ack, "rate_limited")
  ELSE dispatch(qt, allow_scan)

\* on_query up to its first suspension after the rate limit check
on_query(c, qt) ==
  /\ pc[c] = "idle"
  /\ sent < MaxQueries
  /\ redis[c] = Unlocked
  /\ \E out \in Outcomes :
       LET ip == client_addr[c]
           rl == check_rate_limit(ratelimit, ip, config.rate_limit,
                                  config.rate_window, out)
           ran == rl.store # ratelimit
           nxt == after_rate_limit(rl.ret, qt, config.allow_scan)
       IN /\ ratelimit' = rl.store
          /\ rl_hist' =
               IF ran
               THEN [rl_hist EXCEPT ![ip] =
                       IF out # "ok" THEN [@ EXCEPT !.errs = TRUE]
                       ELSE IF rl.ret THEN [@ EXCEPT !.allowed = @ + 1]
                       ELSE [@ EXCEPT !.denied = @ + 1]]
               ELSE rl_hist
          /\ window_age' =
               IF ran /\ ratelimit[ip].count = 0
               THEN [window_age EXCEPT ![ip] = 0]
               ELSE window_age
          /\ ops' = [ops EXCEPT ![c] =
                       IF rl.called
                       THEN IF out = "ok" THEN {"script"} ELSE {"script", "script:err"}
                       ELSE {}]
          /\ allowed' = [allowed EXCEPT ![c] = rl.ret]
          /\ pc' = [pc EXCEPT ![c] = nxt.pc]
          /\ query_type' = [query_type EXCEPT ![c] = nxt.query_type]
          /\ response' = [response EXCEPT ![c] = nxt.response]
          /\ logged' = [logged EXCEPT ![c] = nxt.logged]
          /\ redis' = [redis EXCEPT ![c] = rate_limit_block(nxt.pc)]
  /\ sent' = sent + 1
  /\ query' = [query EXCEPT ![c] = qt]
  /\ cursor' = [cursor EXCEPT ![c] = 0]
  /\ keys' = [keys EXCEPT ![c] = <<>>]
  /\ rw' = [rw EXCEPT ![c] = <<>>]
  /\ reads' = [reads EXCEPT ![c] = {}]
  /\ got' = [got EXCEPT ![c] = "none"]
  /\ UNCHANGED <<text, known_tables, parsed,
                 config, client_addr, auth, records, qr_result, tok_hist, qr_seen, main_vars>>

\* SelectByPk arm: get_record, then at most one row
SelectByPk(c) ==
  /\ pc[c] = "get_record"
  /\ redis[c] = Unlocked
  /\ \E out \in {"ok", "err"} :
       LET qt == query_type[c]
           key == UserKey(qt.table, qt.pk_value)
           value == get_record(records, key, out)
           record == UserRecordFromStr(value)
           rows == IF value # Absent /\ record.ok
                   THEN << UserRow(qt.pk_value, record) >>
                   ELSE <<>>
       IN /\ response' = [response EXCEPT ![c] = ResultSet(qt.table, rows)]
          /\ reads' = [reads EXCEPT ![c] = @ \cup {key}]
          /\ got' = [got EXCEPT ![c] = IF out = "ok" THEN value ELSE "err"]
          /\ ops' = [ops EXCEPT ![c] =
                       @ \cup (IF out = "ok" THEN {"get"} ELSE {"get", "get:err"})]
  /\ pc' = [pc EXCEPT ![c] = "idle"]
  /\ logged' = [logged EXCEPT ![c] = "pk_lookup"]
  /\ UNCHANGED <<text, known_tables, parsed,
                 config, client_addr, ratelimit, auth, records, query, allowed,
                 query_type, cursor, keys, rw, qr_result, sent, rl_hist,
                 window_age, tok_hist, qr_seen, main_vars, redis>>

\* SelectScan arm: one SCAN of the loop of get_all_keys; when the loop ends
\* with no key, the empty result set is written at once
get_all_keys(c) ==
  /\ pc[c] = "get_all_keys"
  /\ redis[c] = IF cursor[c] = 0 THEN Unlocked ELSE "get_all_keys"
  /\ \E upto \in (cursor[c] + 1)..MaxKeys, out \in {"ok", "err"} :
       LET qt == query_type[c]
           r == get_all_keys_step(records, qt.table, config.scan_limit,
                                  cursor[c], keys[c], upto, out)
       IN /\ keys' = [keys EXCEPT ![c] = r.keys]
          /\ cursor' = [cursor EXCEPT ![c] = r.cursor]
          /\ redis' = [redis EXCEPT ![c] = get_all_keys_guard(r.done)]
          /\ ops' = [ops EXCEPT ![c] =
                       @ \cup (IF out = "ok" THEN {"scan"} ELSE {"scan", "scan:err"})]
          /\ IF r.done /\ r.keys = <<>>
             THEN /\ pc' = [pc EXCEPT ![c] = "idle"]
                  /\ response' = [response EXCEPT ![c] = ResultSet(qt.table, <<>>)]
                  /\ logged' = [logged EXCEPT ![c] = "scan"]
             ELSE /\ pc' = [pc EXCEPT ![c] = IF r.done THEN "scan_rows" ELSE "get_all_keys"]
                  /\ UNCHANGED <<response, logged>>
  /\ UNCHANGED <<reads, text, known_tables, parsed,
                 config, client_addr, ratelimit, auth, records, query, allowed,
                 query_type, rw, qr_result, sent, rl_hist, window_age, tok_hist,
                 qr_seen, main_vars, got>>

\* SelectScan arm: the body of "for key in keys", one get_record
scan_row(c) ==
  /\ pc[c] = "scan_rows"
  /\ redis[c] = Unlocked
  /\ \E out \in {"ok", "err"} :
       LET qt == query_type[c]
           key == Head(keys[c])
           pk_value == strip_prefix(key, qt.table)
           value == get_record(records, key, out)
           record == UserRecordFromStr(value)
           rows == IF value # Absent /\ record.ok
                   THEN Append(rw[c], UserRow(pk_value, record))
                   ELSE rw[c]
           last == Tail(keys[c]) = <<>>
       IN /\ keys' = [keys EXCEPT ![c] = Tail(@)]
          /\ reads' = [reads EXCEPT ![c] = @ \cup {key}]
          /\ got' = [got EXCEPT ![c] = IF out = "ok" THEN value ELSE "err"]
          /\ ops' = [ops EXCEPT ![c] =
                       @ \cup (IF out = "ok" THEN {"get"} ELSE {"get", "get:err"})]
          /\ IF last
             THEN /\ pc' = [pc EXCEPT ![c] = "idle"]
                  /\ response' = [response EXCEPT ![c] = ResultSet(qt.table, rows)]
                  /\ logged' = [logged EXCEPT ![c] = "scan"]
                  /\ rw' = [rw EXCEPT ![c] = <<>>]
             ELSE /\ rw' = [rw EXCEPT ![c] = rows]
                  /\ UNCHANGED <<pc, response, logged>>
  /\ UNCHANGED <<text, known_tables, parsed,
                 config, client_addr, ratelimit, auth, records, query, allowed,
                 query_type, cursor, qr_result, sent, rl_hist, window_age,
                 tok_hist, qr_seen, main_vars, redis>>

\* what a GETDEL of auth:{t} finds, and why when it finds nothing
Found(au, hist, t) ==
  IF au[t] # Absent THEN "payload"
  ELSE IF hist[t].issued = "never" THEN "never_issued"
  ELSE IF hist[t].expired THEN "expired"
  ELSE "consumed"

\* QrVerify arm: verify_token, then write_qr_verify_result
QrVerify(c) ==
  /\ pc[c] = "verify_token"
  /\ redis[c] = Unlocked
  /\ \E out \in Outcomes :
       LET t == query_type[c].token
           v == verify_token(auth, t, out)
       IN /\ auth' = v.store
          /\ records' = IF out = "err" THEN records ELSE del(records, auth_key(t))
          /\ qr_result' = [qr_result EXCEPT ![c] = v.result]
          /\ qr_seen' = [qr_seen EXCEPT ![c] =
                           IF out # "ok" THEN "error" ELSE Found(auth, tok_hist, t)]
          /\ response' = [response EXCEPT ![c] = write_qr_verify_result(v.result)]
          /\ ops' = [ops EXCEPT ![c] =
                       @ \cup (IF out = "ok" THEN {"getdel"} ELSE {"getdel", "getdel:err"})]
          /\ tok_hist' = [tok_hist EXCEPT ![t] =
                            [@ EXCEPT !.attempts = @ + 1,
                                      !.successes = @ + (IF v.result.verified THEN 1 ELSE 0),
                                      !.errs = @ \/ out # "ok"]]
  /\ pc' = [pc EXCEPT ![c] = "idle"]
  /\ logged' = [logged EXCEPT ![c] = "qr_verify"]
  /\ UNCHANGED <<reads, text, known_tables, parsed,
                 config, client_addr, ratelimit, query, allowed,
                 query_type, cursor, keys, rw, sent, rl_hist, window_age,
                 main_vars, got, redis>>

(* --------------------------- the environment -------------------------- *)
\* the external issuer stores auth:{token} (spec 3, Auth Token)
IssueToken(t) ==
  /\ \E json \in {GoodTokenJson, BadJson} :
       /\ auth' = [auth EXCEPT ![t] = json]
       /\ tok_hist' = [tok_hist EXCEPT ![t] = [NoHist EXCEPT !.issued = json]]
  /\ UNCHANGED <<reads, text, known_tables, parsed,
                 config, client_addr, ratelimit, records, pc, query, allowed,
                 query_type, cursor, keys, rw, response, qr_result, logged, ops,
                 sent, rl_hist, window_age, qr_seen, main_vars, got, redis>>

\* the store expires auth:{token}
ExpireToken(t) ==
  /\ auth[t] # Absent
  /\ auth' = [auth EXCEPT ![t] = Absent]
  /\ tok_hist' = [tok_hist EXCEPT ![t].expired = TRUE]
  /\ UNCHANGED <<reads, text, known_tables, parsed,
                 config, client_addr, ratelimit, records, pc, query, allowed,
                 query_type, cursor, keys, rw, response, qr_result, logged, ops,
                 sent, rl_hist, window_age, qr_seen, main_vars, got, redis>>

\* another client of the store sets, overwrites or deletes users.{pk}, or the
\* store expires it
WriteRecord(k) ==
  /\ \E v \in {Absent, GoodRecordJson, BadJson} :
       /\ v # records[k]
       /\ records' = [records EXCEPT ![k] = v]
  /\ UNCHANGED <<config, client_addr, ratelimit, auth, pc, query, allowed,
                 query_type, cursor, keys, rw, response, qr_result, logged, ops,
                 sent, rl_hist, window_age, tok_hist, qr_seen, reads, text,
                 known_tables, parsed, main_vars, got, redis>>

\* one second passes: every key with an expiry loses a second and is removed
\* when none is left
Tick ==
  /\ \E ip \in IPs : ratelimit[ip].count > 0
  /\ ratelimit' = [ip \in IPs |->
                     IF ratelimit[ip].ttl = 1 THEN NoKey
                     ELSE IF ratelimit[ip].ttl > 1
                          THEN [ratelimit[ip] EXCEPT !.ttl = @ - 1]
                          ELSE ratelimit[ip]]
  /\ rl_hist' = [ip \in IPs |-> IF ratelimit[ip].ttl = 1 THEN NoReplies ELSE rl_hist[ip]]
  /\ window_age' = [ip \in IPs |->
                      IF ratelimit[ip].ttl = 1 \/ ratelimit[ip].count = 0 THEN 0
                      ELSE window_age[ip] + 1]
  /\ UNCHANGED <<reads, text, known_tables, parsed,
                 config, client_addr, auth, records, pc, query, allowed,
                 query_type, cursor, keys, rw, response, qr_result, logged, ops,
                 sent, tok_hist, qr_seen, main_vars, got, redis>>

\* on_query, "Parse query": the call of parse_query
ParseQuery ==
  /\ parsed = NotParsed
  /\ parsed' = parse_query(text, known_tables)
  /\ UNCHANGED <<config, client_addr, ratelimit, auth, records, pc, query,
                 allowed, query_type, cursor, keys, rw, response, qr_result,
                 logged, ops, sent, rl_hist, window_age, tok_hist, qr_seen,
                 reads, text, known_tables, main_vars, got, redis>>

(* -------------------------------- main -------------------------------- *)
\* everything but the state of main
backend_vars == <<config, client_addr, ratelimit, auth, records, pc, query,
                  allowed, query_type, cursor, keys, rw, response, qr_result,
                  logged, ops, sent, rl_hist, window_age, tok_hist, qr_seen,
                  reads, text, known_tables, parsed, got, redis>>

\* what query_async::<String> of PING may return: the reply or an error
Replies == {"PONG", "LOADING", "err"}

\* the liveness check passing on every reply
verify_redis_connection_AnyReply(reply) == reply # "err"

\* verify_redis_connection: true when PING was answered with PONG
verify_redis_connection(reply) == reply = "PONG"

\* main: a startup step whose failure is process::exit(1)
startup(step, next) ==
  /\ main = step
  /\ \E ok \in BOOLEAN :
       /\ main' = IF ok THEN next ELSE "exit"
       /\ exit_at' = IF ok THEN exit_at ELSE step
  /\ UNCHANGED <<ping, accepted, backend_vars>>

\* tracing::subscriber::set_global_default: Ok, as no subscriber was set
\* before in the process
set_global_default ==
  /\ main = "set_global_default"
  /\ main' = "Client::open"
  /\ UNCHANGED <<ping, exit_at, accepted, backend_vars>>

\* redis::Client::open: the store address is parsed, no connection is made
Client_open == startup("Client::open", "ConnectionManager::new")

\* ConnectionManager::new: the connection to the store
ConnectionManager_new == startup("ConnectionManager::new", "PING")

\* main, "Verify Redis connection with PING"
PING ==
  /\ main = "PING"
  /\ \E reply \in Replies :
       /\ ping' = reply
       /\ main' = IF verify_redis_connection(reply) THEN "bind" ELSE "exit"
       /\ exit_at' = IF verify_redis_connection(reply) THEN exit_at ELSE "PING"
  /\ UNCHANGED <<accepted, backend_vars>>

\* TcpListener::bind
bind == startup("bind", "accept")

\* main, loop: listener.accept() gives a connection, which gets its Backend
\* and its task, or an error, which is logged
accept(c) ==
  /\ main = "accept"
  /\ pc[c] = "unaccepted"
  /\ \/ /\ pc' = [pc EXCEPT ![c] = "idle"]
        /\ accepted' = accepted + 1
     \/ UNCHANGED <<pc, accepted>>
  /\ UNCHANGED <<main, ping, exit_at,
                 config, client_addr, ratelimit, auth, records, query,
                 allowed, query_type, cursor, keys, rw, response, qr_result,
                 logged, ops, sent, rl_hist, window_age, tok_hist, qr_seen,
                 reads, text, known_tables, parsed, got, redis>>

\* the task of a connection: run_on returns when the client is gone
connection_closed(c) ==
  /\ pc[c] = "idle"
  /\ pc' = [pc EXCEPT ![c] = "closed"]
  /\ UNCHANGED <<main_vars,
                 config, client_addr, ratelimit, auth, records, query,
                 allowed, query_type, cursor, keys, rw, response, qr_result,
                 logged, ops, sent, rl_hist, window_age, tok_hist, qr_seen,
                 reads, text, known_tables, parsed, got, redis>>

\* every arm of on_query: the queries of one connection, one after the
\* other, as time passes
Next ==
  \/ \E qt \in Queries : on_query("c1", qt)
  \/ SelectByPk("c1")
  \/ get_all_keys("c1")
  \/ scan_row("c1")
  \/ QrVerify("c1")
  \/ Tick

Spec == Init /\ [][Next]_vars

\* rate limiting: the queries of all connections interleaved, as time passes
NextRate ==
  \/ \E c \in Conns, qt \in RateQueries : on_query(c, qt)
  \/ Tick

SpecRate == InitRate /\ [][NextRate]_vars

\* token verification: clients send qr_verify queries (and rejected ones),
\* an issuer issues tokens and the store expires them
NextAuth ==
  \/ \E c \in Conns, qt \in AuthQueries : on_query(c, qt)
  \/ \E c \in Conns : QrVerify(c)
  \/ \E t \in Tokens : IssueToken(t)
  \/ \E t \in Tokens : ExpireToken(t)

SpecAuth == InitAuth /\ [][NextAuth]_vars

\* scans and point lookups of one connection, rate limiting disabled
NextScan ==
  \/ \E qt \in ScanQueries : on_query("c1", qt)
  \/ SelectByPk("c1")
  \/ get_all_keys("c1")
  \/ scan_row("c1")

SpecScan == InitScan /\ [][NextScan]_vars

\* the same, the task of the connection being polled again whenever the
\* reply of its SCAN arrived: the loop of get_all_keys goes on when it can
SpecScanFair == SpecScan /\ WF_vars(get_all_keys("c1"))

\* scans of one connection while other clients of the store write and delete
\* records
NextSkew ==
  \/ \E qt \in {q \in ScanQueries : q.type = "SelectScan"} : on_query("c1", qt)
  \/ get_all_keys("c1")
  \/ scan_row("c1")
  \/ \E k \in UserKeys : WriteRecord(k)

SpecSkew == InitSkew /\ [][NextSkew]_vars

\* scans and point lookups of one connection under the rate limit, as time
\* passes
NextFlag ==
  \/ \E qt \in ScanQueries : on_query("c1", qt)
  \/ SelectByPk("c1")
  \/ get_all_keys("c1")
  \/ scan_row("c1")
  \/ Tick

SpecFlag == InitFlag /\ [][NextFlag]_vars

\* the queries of one connection, of every kind
NextLock ==
  \/ \E qt \in Queries : on_query("c1", qt)
  \/ SelectByPk("c1")
  \/ get_all_keys("c1")
  \/ scan_row("c1")
  \/ QrVerify("c1")

\* on_query is polled again whenever the reply of the store command it awaits
\* arrived and the lock it awaits is free
SpecLock ==
  /\ InitLock /\ [][NextLock]_vars
  /\ WF_vars(SelectByPk("c1"))
  /\ WF_vars(get_all_keys("c1"))
  /\ WF_vars(scan_row("c1"))
  /\ WF_vars(QrVerify("c1"))

\* rejections: the connections send texts that parse_query rejects
NextReject ==
  \/ \E c \in Conns, qt \in RejectQueries : on_query(c, qt)
  \/ Tick

SpecReject == InitReject /\ [][NextReject]_vars

\* the stored records: the connections send queries of every kind that reaches
\* the store
NextFrame ==
  \/ \E c \in Conns, qt \in FrameQueries : on_query(c, qt)
  \/ \E c \in Conns : SelectByPk(c)
  \/ \E c \in Conns : get_all_keys(c)
  \/ \E c \in Conns : scan_row(c)
  \/ \E c \in Conns : QrVerify(c)

SpecFrame == InitFrame /\ [][NextFrame]_vars

\* the classifier applied to the text in hand
NextParse == ParseQuery

SpecParse == InitParse /\ [][NextParse]_vars

\* the process from its start: the startup steps, then the accept loop and
\* the queries of the accepted connections, while the store may fail
NextMain ==
  \/ set_global_default
  \/ Client_open
  \/ ConnectionManager_new
  \/ PING
  \/ bind
  \/ \E c \in Conns : accept(c)
  \/ \E c \in Conns : connection_closed(c)
  \/ \E c \in Conns, qt \in RejectQueries : on_query(c, qt)
  \/ Tick

SpecMain == InitMain /\ [][NextMain]_vars

(* ------------------------------- claims ------------------------------- *)
Min(a, b) == IF a < b THEN a ELSE b

\* C1 (SpecAuth): since a token was last issued, at most one verification of
\* it returned verified=true; and when it was issued with a well-formed
\* payload and neither a store error nor an expiry came in between, as soon
\* as one verification has returned, exactly one has returned verified=true.
C1_SingleUse ==
  \A t \in Tokens :
    LET h == tok_hist[t]
    IN /\ h.successes <= 1
       /\ (h.issued = GoodTokenJson /\ ~h.errs /\ ~h.expired /\ h.attempts >= 1)
            => h.successes = 1

\* two connections verified the same token, issued once: one got the row
C1_Witness ==
  /\ tok_hist["t1"].attempts = 2
  /\ ~tok_hist["t1"].errs /\ ~tok_hist["t1"].expired
  /\ query_type["c1"].type = "QrVerify" /\ query_type["c2"].type = "QrVerify"
  /\ pc["c1"] = "idle" /\ pc["c2"] = "idle"
  /\ qr_result["c1"].verified /\ ~qr_result["c2"].verified
  /\ Len(response["c1"].rows) = 1 /\ response["c2"].rows = <<>>

\* C2 (SpecAuth): a verification whose GETDEL found no key - the token was
\* never issued, was consumed, or expired - returned not_found (verified=false,
\* every other field None) and the client got the qr_verify result set with no
\* row, the same for the three causes.
C2_AbsenceUniform ==
  \A c \in Conns :
    (logged[c] = "qr_verify" /\ pc[c] = "idle"
       /\ qr_seen[c] \in {"never_issued", "consumed", "expired"})
      => /\ qr_result[c] = not_found
         /\ response[c] = [kind |-> "resultset", cols |-> "qr_verify", rows |-> <<>>]

\* two connections found the key absent for two different causes
C2_Witness ==
  /\ logged["c1"] = "qr_verify" /\ logged["c2"] = "qr_verify"
  /\ pc["c1"] = "idle" /\ pc["c2"] = "idle"
  /\ qr_seen["c1"] = "consumed" /\ qr_seen["c2"] \in {"expired", "never_issued"}
  /\ response["c1"] = response["c2"]
\* C3 (SpecRate): with a limit N >= 1, in the lifetime of one counter key and
\* with no store error, the script's replies 1..N were allowed and every
\* reply above N was denied, whatever connections the requests came on.
C3_RateLimitBound ==
  \A ip \in IPs :
    LET k == ratelimit[ip].count
        h == rl_hist[ip]
        N == config.rate_limit
    IN (N >= 1 /\ ~h.errs)
         => /\ h.allowed = Min(k, N)
            /\ h.denied = k - Min(k, N)

\* two connections of one address: N requests allowed, then two denied
C3_Witness ==
  /\ client_addr["c2"] = client_addr["c1"]
  /\ config.rate_limit >= 1
  /\ ~rl_hist["10.0.0.1"].errs
  /\ rl_hist["10.0.0.1"].allowed = config.rate_limit
  /\ rl_hist["10.0.0.1"].denied >= 2
  /\ ~allowed["c1"] /\ ~allowed["c2"]

\* C4 (SpecRate): a counter key lives rate_window seconds from its creation and
\* no longer, however many requests it counts (its remaining time plus its age
\* is rate_window), and the first counted request of every key's lifetime is
\* allowed: a denied address is allowed again at most rate_window seconds after
\* the first request of the window.
C4_WindowReset ==
  \A ip \in IPs :
    ratelimit[ip].count > 0
      => /\ ratelimit[ip].ttl >= 1
         /\ ratelimit[ip].ttl + window_age[ip] = config.rate_window
         /\ (config.rate_limit >= 1 /\ ~rl_hist[ip].errs) => rl_hist[ip].allowed >= 1

\* c1 was denied in an earlier window; c2, same address, opened a new one
C4_Witness ==
  /\ client_addr["c2"] = client_addr["c1"]
  /\ logged["c1"] = "rate_limited"
  /\ allowed["c2"] /\ logged["c2"] # "none"
  /\ ratelimit["10.0.0.1"] = [count |-> 1, ttl |-> config.rate_window]
  /\ rl_hist["10.0.0.1"] = [allowed |-> 1, denied |-> 0, errs |-> FALSE]

\* C5 (SpecRate): the expiry of a counter key is set only by the step that
\* creates the key with count 1, and to rate_window; no step on an existing
\* key sets or extends it, and every created key has its expiry.
C5_ExpiryOnCreation ==
  [][\A ip \in IPs :
       /\ ratelimit'[ip].ttl > ratelimit[ip].ttl
            => /\ ratelimit[ip].count = 0
               /\ ratelimit'[ip] = [count |-> 1, ttl |-> config.rate_window]
       /\ (ratelimit[ip].count = 0 /\ ratelimit'[ip].count > 0)
            => ratelimit'[ip] = [count |-> 1, ttl |-> config.rate_window]
       /\ (ratelimit[ip].count > 0 /\ ratelimit'[ip].count > ratelimit[ip].count)
            => ratelimit'[ip].ttl = ratelimit[ip].ttl]_vars

\* two connections of one address both counted in a key that has aged
C5_Witness ==
  /\ client_addr["c2"] = client_addr["c1"]
  /\ ratelimit["10.0.0.1"].count >= 2
  /\ window_age["10.0.0.1"] >= 1
  /\ ratelimit["10.0.0.1"].ttl = config.rate_window - window_age["10.0.0.1"]
  /\ allowed["c1"] /\ allowed["c2"]
  /\ logged["c1"] # "none" /\ logged["c2"] # "none"

\* C6 (Spec): when the script call of a query failed, check_rate_limit returned
\* true and the query was classified and executed as its arm of on_query does:
\* an arm without store command answered as dispatch says, the other arms went
\* on to their store command and answered with a result set.
C6_FailOpen ==
  \A c \in Conns :
    "script:err" \in ops[c]
      => LET d == dispatch(query[c], config.allow_scan)
         IN /\ allowed[c]
            /\ query_type[c] = query[c]
            /\ logged[c] # "rate_limited"
            /\ IF d.pc = "idle"
               THEN /\ pc[c] = "idle"
                    /\ response[c] = d.response
                    /\ logged[c] = d.logged
               ELSE \/ pc[c] \in {d.pc, "scan_rows"}
                    \/ /\ pc[c] = "idle"
                       /\ response[c].kind = "resultset"
                       /\ ops[c] \cap {"get", "scan", "getdel"} # {}

\* the script ran but its reply was lost: the count is above the limit and the
\* point lookup was answered with its row all the same
C6_Witness ==
  /\ "script:err" \in ops["c1"]
  /\ ratelimit[client_addr["c1"]].count > config.rate_limit
  /\ query["c1"].type = "SelectByPk"
  /\ pc["c1"] = "idle"
  /\ Len(response["c1"].rows) = 1

\* C7 (SpecRate): with rate_limit = 0 no counter key exists at any time, no
\* query ran the script, and every query was allowed.
C7_LimitZeroDisables ==
  config.rate_limit = 0
    => /\ \A ip \in IPs : ratelimit[ip] = NoKey
       /\ \A c \in Conns :
            /\ allowed[c]
            /\ "script" \notin ops[c]
            /\ logged[c] # "rate_limited"

\* four queries from two addresses were answered with rate_limit = 0
C7_Witness ==
  /\ config.rate_limit = 0
  /\ client_addr["c2"] # client_addr["c1"]
  /\ sent >= 4
  /\ logged["c1"] # "none" /\ logged["c2"] # "none"

\* C8 (Spec): a query check_rate_limit returned false for was answered with
\* the acknowledgement and nothing else: parse_query was not called and the
\* script is the only store command issued for it.
C8_DenialShortCircuits ==
  \A c \in Conns :
    ~allowed[c]
      => /\ pc[c] = "idle"
         /\ response[c] = Ack
         /\ logged[c] = "rate_limited"
         /\ query_type[c] = NoQuery
         /\ ops[c] = {"script"}

\* a denied qr_verify query: its token is still in the store
C8_Witness ==
  /\ ~allowed["c1"]
  /\ query["c1"].type = "QrVerify"
  /\ auth[query["c1"].token] = GoodTokenJson
  /\ response["c1"] = Ack

\* C9 (SpecScan): with a row cap N >= 1, the keys get_all_keys holds after
\* each SCAN, and the keys still to fetch plus the rows written, are never
\* more than N; the result set of a scan has at most N rows.
C9_ScanRowCap ==
  \A c \in Conns :
    config.scan_limit >= 1
      => /\ Len(keys[c]) + Len(rw[c]) <= config.scan_limit
         /\ query_type[c].type = "SelectScan"
              => Len(response[c].rows) <= config.scan_limit

\* cap 1, every key stored: the first SCAN walked the whole keyspace (cursor 0
\* again) and its batch alone held more keys than the cap; one row was sent
C9_Witness ==
  /\ config.allow_scan /\ config.scan_limit = 1
  /\ \A k \in UserKeys : records[k] = GoodRecordJson
  /\ query_type["c1"].type = "SelectScan"
  /\ pc["c1"] = "idle" /\ cursor["c1"] = 0
  /\ "scan:err" \notin ops["c1"]
  /\ Len(response["c1"].rows) = 1

\* C10 (SpecScan), the claim as stated: with a row cap of 0 the result set of
\* a scan has no row, whatever allow_scan is.
C10_ZeroCapNoRows ==
  \A c \in Conns :
    (config.scan_limit = 0 /\ query_type[c].type = "SelectScan")
      => response[c].rows = <<>>

\* C11 (SpecParse): a text whose trimmed, lower-cased form starts with a write
\* keyword (insert, update, delete, drop, truncate, alter, create) is
\* classified Rejected with that keyword's reason, whatever else it contains.
C11_WriteStatementsRejected ==
  \A i \in DOMAIN WriteOperations :
    (parsed # NotParsed
       /\ starts_with(to_lowercase(trim(text)), WriteOperations[i][1]))
      => parsed = Rejected(WriteOperations[i][2])

\* the characters that end a word
Delimiters == Whitespace \cup {"'", "\"", "(", ")", ","}

\* w occurs in s as a word: between delimiters or the ends of s
has_word(s, w) ==
  \E i \in 0..(Len(s) - Len(w)) :
    /\ SubSeq(s, i + 1, i + Len(w)) = w
    /\ i = 0 \/ s[i] \in Delimiters
    /\ i + Len(w) = Len(s) \/ s[i + Len(w) + 1] \in Delimiters

\* the disallowed constructs of spec 4.1 that occur in the lower-cased text s,
\* however they are separated from their neighbours
constructs(s) ==
  {w \in {<<"a", "n", "d">>, <<"o", "r">>, <<"i", "n">>, <<"l", "i", "k", "e">>, <<"b", "e", "t", "w", "e", "e", "n">>, <<"j", "o", "i", "n">>, <<"l", "i", "m", "i", "t">>, <<"o", "f", "f", "s", "e", "t">>,
          <<"u", "n", "i", "o", "n">>} : has_word(s, w)}
  \cup {op \in {<<">", "=">>, <<"<", "=">>, <<"<", ">">>, <<"!", "=">>} : contains(s, op)}
  \cup {op \in {<<">">>, <<"<">>} :
          \E i \in 1..Len(s) :
            /\ s[i] = op[1]
            /\ i = 1 \/ s[i - 1] \notin {"<", ">"}
            /\ i = Len(s) \/ s[i + 1] \notin {"=", ">"}}
  \cup {w \in {<<"o", "r", "d", "e", "r">>, <<"g", "r", "o", "u", "p">>} :
          \E ws \in Whitespace : has_word(s, w \o <<ws>> \o <<"b", "y">>)}
  \cup {w \in {<<"s", "e", "l", "e", "c", "t">>} :
          \E i \in 1..(Len(s) - Len(w)) :
            s[i] = "(" /\ starts_with(trim_start(SubSeq(s, i + 1, Len(s))), w)}

\* C12 (SpecParse): no text classified SelectByPk or SelectScan contains a
\* disallowed construct, whether the construct is set off by spaces, by tabs
\* or by a quote or parenthesis.
C12_WhitelistBoundary ==
  parsed.type \in {"SelectByPk", "SelectScan"}
    => constructs(to_lowercase(text)) = {}

\* the names of a list of tables
Range(tables) == {tables[i] : i \in DOMAIN tables}

\* C13 (SpecParse): the QueryType returned for a text is the same for every
\* order in which the same set of known tables is listed.
C13_TableOrderIrrelevant ==
  \A other \in TableLists :
    (parsed # NotParsed /\ Range(other) = Range(known_tables))
      => parse_query(text, other) = parsed

\* C14 (SpecParse): parse_query returns a QueryType for every text: no slice
\* of the original text at a position found in the lower-cased text panics.
C14_Total == parsed # Aborted

\* C15 (SpecParse): the QueryType returned for a text is the one returned for
\* the same text without surrounding whitespace and with its keywords,
\* function, table and column names in lower case; quoted values are kept.
C15_CaseAndPaddingIrrelevant ==
  parsed # NotParsed
    => parsed = parse_query(to_lowercase_unquoted(trim(text), ""), known_tables)

\* C16 (SpecScan): a point lookup of (t, pk) fetched the key t.pk and no
\* other; it answered with a result set of at most one row: one row, its
\* first column the requested pk, when the key holds a well-formed record
\* and the GET did not fail, no row when the key is absent or holds a value
\* that does not parse.
C16_PointLookupResult ==
  \A c \in Conns :
    (query_type[c].type = "SelectByPk" /\ pc[c] = "idle")
      => LET qt == query_type[c]
             key == qt.table \o "." \o qt.pk_value
             rows == response[c].rows
         IN /\ reads[c] = {key}
            /\ response[c].kind = "resultset"
            /\ Len(rows) <= 1
            /\ (records[key] = GoodRecordJson /\ "get:err" \notin ops[c])
                 => (Len(rows) = 1 /\ rows[1][1] = qt.pk_value)
            /\ records[key] # GoodRecordJson => rows = <<>>

\* a lookup returned its one row, another lookup found a value that does not
\* parse
C16_Witness ==
  /\ query_type["c1"].type = "SelectByPk" /\ pc["c1"] = "idle"
  /\ Len(response["c1"].rows) = 1
  /\ response["c1"].rows[1][1] = query_type["c1"].pk_value
  /\ \E pk \in PKs : records[UserKey("users", pk)] = BadJson

\* the query of c was answered without being executed: it was classified
\* Rejected, or the rate limiter denied it
Refused(c) ==
  pc[c] = "idle" /\ (query[c].type = "Rejected" \/ ~allowed[c])

\* C17 (SpecReject): any two refused queries - rejected for whatever reasons, or
\* rate limited - got the same response, an acknowledgement with no column
\* and no row, and the only store command issued for a refused query is the
\* rate-limit script.
C17_RejectionsIndistinguishable ==
  \A c, d \in Conns :
    (Refused(c) /\ Refused(d))
      => /\ response[c] = response[d]
         /\ response[c].kind = "ack"
         /\ response[c].cols = "" /\ response[c].rows = <<>>
         /\ ops[c] \subseteq {"script", "script:err"}

\* two connections had queries rejected for different reasons, neither was
\* rate limited
C17_Witness ==
  /\ Refused("c1") /\ Refused("c2")
  /\ allowed["c1"] /\ allowed["c2"]
  /\ query_type["c1"].reason = "unknown_query"
  /\ query_type["c2"].reason = "and_not_allowed"
  /\ logged["c1"] = "rejected" /\ logged["c2"] = "rejected"
  /\ "script" \in ops["c1"]


\* C18 (SpecFrame): no step of the server changes the value of a key of a
\* table namespace, whatever token or primary-key text the clients send; of
\* the token keys a step changes only the one a connection is verifying.
C18_RecordsReadOnly ==
  [][/\ records' = records
     /\ \A t \in DOMAIN auth :
          auth'[t] # auth[t]
            => \E c \in Conns : pc[c] = "verify_token" /\ query_type[c].token = t]_vars

\* a connection verified the token text "users.1", the GETDEL ran, and the
\* record users.1 was then returned to another connection's lookup
C18_Witness ==
  /\ query_type["c1"].token = "users.1" /\ logged["c1"] = "qr_verify"
  /\ "getdel" \in ops["c1"] /\ "getdel:err" \notin ops["c1"]
  /\ query_type["c2"].type = "SelectByPk" /\ pc["c2"] = "idle"
  /\ Len(response["c2"].rows) = 1
  /\ records[UserKey("users", "1")] = GoodRecordJson


\* C19 (Spec): a query during which a store command failed was answered like
\* any other, with an acknowledgement or a result set: after a failed
\* rate-limit script the query was executed; a scan one of whose SCANs
\* failed returned the empty result set at once, whatever keys it had
\* collected; a point lookup whose GET failed and a verification whose
\* GETDEL failed returned no row; a scan one of whose GETs failed returned
\* its result set.
C19_StoreFailuresSilent ==
  \A c \in Conns :
    LET failed(cmd) == cmd \in ops[c] IN
    /\ failed("script:err") => (allowed[c] /\ query_type[c] = query[c])
    /\ failed("scan:err")
         => (pc[c] = "idle" /\ response[c] = ResultSet(query[c].table, <<>>))
    /\ failed("getdel:err")
         => (pc[c] = "idle" /\ response[c] = ResultSet("qr_verify", <<>>))
    /\ (failed("get:err") /\ query[c].type = "SelectByPk")
         => (pc[c] = "idle" /\ response[c] = ResultSet(query[c].table, <<>>))
    /\ (failed("get:err") /\ query[c].type = "SelectScan" /\ pc[c] = "idle")
         => response[c].kind = "resultset"
    /\ (pc[c] = "idle" /\ query[c] # NoQuery)
         => response[c].kind \in {"ack", "resultset"}

\* a scan had collected the key of its first batch when its next SCAN failed:
\* the client got the empty result set
C19_Witness ==
  /\ query["c1"].type = "SelectScan" /\ pc["c1"] = "idle"
  /\ "scan:err" \in ops["c1"]
  /\ cursor["c1"] > 0
  /\ records[UserKey("users", "1")] # Absent
  /\ response["c1"] = ResultSet("users", <<>>)
  /\ sent > 1

\* statements that break one rule each: a select by primary key followed by
\* one disallowed construct, or comparing the primary key by another operator
Violations ==
  {join(SelectFrom \o <<<<"w", "h", "e", "r", "e">>, <<"i", "d">>, <<"=">>, <<"'", "1", "'">>>> \o e, <<" ">>) : e \in Extras}
  \cup {join(SelectFrom \o <<<<"w", "h", "e", "r", "e">>, <<"i", "d">>, op, <<"'", "1", "'">>>>, <<" ">>) : op \in Comparisons}

\* C20 (SpecParse): two texts rejected with the same reason other than
\* unknown_query contain the same disallowed constructs: every construct has
\* a reason of its own.
C20_DistinctReasons ==
  \A other \in Violations :
    (parsed.type = "Rejected" /\ parsed.reason # "unknown_query"
       /\ parse_query(other, known_tables) = parsed)
      => constructs(to_lowercase(other)) = constructs(to_lowercase(text))

ascii_lowercase(s) == [i \in DOMAIN s |-> to_ascii_lowercase(s[i])]

\* the quoted argument of the first qr_verify call of s, in whatever case the
\* call is written; None when there is no call or no quoted argument
qr_verify_argument(s) ==
  LET at == find(ascii_lowercase(s), <<"q", "r", "_", "v", "e", "r", "i", "f", "y", "(">>)
  IN IF at = NoPos THEN NoneStr ELSE quoted_value(SubSeq(s, at + 11, Len(s)))

\* the number of the first rule of spec 4.1 whose condition holds of the
\* trimmed text s, n being s in lower case
first_rule(s, n, known) ==
  IF starts_with(n, <<"s", "e", "t", " ">>) \/ starts_with(n, <<"u", "s", "e", " ">>) THEN 1
  ELSE IF contains(n, <<"@", "@", "v", "e", "r", "s", "i", "o", "n">>) THEN 2
  ELSE IF n = <<"s", "h", "o", "w", " ", "t", "a", "b", "l", "e", "s">> THEN 3
  ELSE IF \E t \in Range(known) : n = <<"d", "e", "s", "c", "r", "i", "b", "e", " ">> \o t \/ n = <<"d", "e", "s", "c", " ">> \o t THEN 4
  ELSE IF qr_verify_argument(s) # NoneStr THEN 5
  ELSE IF check_rejected_patterns(n) # None THEN 7
  ELSE IF starts_with(n, <<"s", "e", "l", "e", "c", "t">>) /\ \E t \in Range(known) : contains(n, t) THEN 8
  ELSE 9

\* C22 (SpecParse): parse_query returns the intent of the first rule whose
\* condition holds of the text: session directive, version probe, table
\* list, description of a known table, token verification with the quoted
\* argument as written, rejection with the reason of the pattern scan, a
\* select on a known table, and unknown_query when no rule matches.
C22_FirstMatchWins ==
  LET s == trim(text)
      n == to_lowercase(s)
      rule == first_rule(s, n, known_tables)
  IN parsed # NotParsed =>
       CASE rule = 1 -> parsed = QT("SetOrUse", <<>>, <<>>, <<>>, "")
         [] rule = 2 -> parsed = QT("SelectVersion", <<>>, <<>>, <<>>, "")
         [] rule = 3 -> parsed = QT("ShowTables", <<>>, <<>>, <<>>, "")
         [] rule = 4 -> /\ parsed.type = "DescribeTable"
                        /\ n \in {<<"d", "e", "s", "c", "r", "i", "b", "e", " ">> \o parsed.table, <<"d", "e", "s", "c", " ">> \o parsed.table}
         [] rule = 5 -> parsed = QT("QrVerify", <<>>, <<>>, qr_verify_argument(s), "")
         [] rule = 7 -> parsed = Rejected(check_rejected_patterns(n))
         [] rule = 8 -> \/ /\ parsed.type \in {"SelectByPk", "SelectScan"}
                           /\ parsed.table \in Range(known_tables)
                        \/ parsed = Rejected("unknown_query")
         [] rule = 9 -> parsed = Rejected("unknown_query")

\* the characters of an identifier
IdentChars ==
  Range(ASCII_LOWERCASE) \cup Range(ASCII_UPPERCASE)
    \cup {"0", "1", "2", "3", "4", "5", "6", "7", "8", "9", "_"}

\* the value that starts s: between quotes, or up to the next whitespace
value_of(s) ==
  IF starts_with(s, <<"'">>) \/ starts_with(s, <<"\"">>) THEN quoted_value(s)
  ELSE take_while_not_whitespace(s)

\* the values the where clause of s compares with '=' to the identifier pk
\* itself: pk is not the end of a longer name
compared_values(s, pk) ==
  LET l == ascii_lowercase(s)
      w == find(l, <<"w", "h", "e", "r", "e">>)
      at == IF w = NoPos THEN {}
            ELSE {i \in (w + 5)..(Len(s) - Len(pk)) :
                    /\ SubSeq(l, i + 1, i + Len(pk)) = pk
                    /\ s[i] \notin IdentChars
                    /\ starts_with(trim_start(SubSeq(s, i + Len(pk) + 1, Len(s))), <<"=">>)}
  IN {value_of(trim_start(Tail(trim_start(SubSeq(s, i + Len(pk) + 1, Len(s)))))) :
        i \in at} \ {NoneStr}

\* C23 (SpecParse): SelectByPk(t, v) is returned only for a text that starts
\* with select, mentions the known table t and compares the primary key
\* itself to v in its where clause; SelectScan(t) only for a text that starts
\* with select, mentions t and has no where; every other text with a where
\* that comes to the select rule is Rejected.
C23_AcceptedSelectShape ==
  LET s == trim(text)
      n == to_lowercase(s)
  IN /\ parsed.type = "SelectByPk" =>
          /\ starts_with(n, <<"s", "e", "l", "e", "c", "t">>)
          /\ parsed.table \in Range(known_tables) /\ contains(n, parsed.table)
          /\ parsed.pk_value \in compared_values(s, <<"i", "d">>)
     /\ parsed.type = "SelectScan" =>
          /\ starts_with(n, <<"s", "e", "l", "e", "c", "t">>)
          /\ parsed.table \in Range(known_tables) /\ contains(n, parsed.table)
          /\ ~contains(n, <<"w", "h", "e", "r", "e">>)
     /\ (/\ parsed # NotParsed
         /\ first_rule(s, n, known_tables) = 8
         /\ contains(n, <<"w", "h", "e", "r", "e">>)
         /\ compared_values(s, <<"i", "d">>) = {})
          => parsed = Rejected("unknown_query")

\* C24 (SpecParse): parse_query never returns a SelectByPk whose pk_value is
\* the empty string: an empty value after the '=', bare or between quotes, is
\* no match of the where clause.
C24_NoEmptyPk ==
  parsed.type = "SelectByPk" => parsed.pk_value # <<>>

\* C25 (SpecScanFair): the loop of get_all_keys starts at cursor 0 with no
\* key; a turn of the loop is the last one exactly when its SCAN failed, the
\* cursor it returned is 0, or, with a cap above 0, the keys collected reach
\* the cap; and the loop ends, for every cap (0 too) and every content of the
\* batches.
C25_ScanLoopTerminates ==
  /\ [][\A c \in Conns :
          /\ (pc[c] # "get_all_keys" /\ pc'[c] = "get_all_keys")
               => cursor'[c] = 0 /\ keys'[c] = <<>>
          /\ (/\ pc[c] = "get_all_keys"
              /\ <<pc[c], cursor[c], keys[c], ops[c]>>'
                   # <<pc[c], cursor[c], keys[c], ops[c]>>)
               => (pc'[c] # "get_all_keys"
                    <=> \/ "scan:err" \in ops'[c]
                        \/ cursor'[c] = 0
                        \/ /\ config.scan_limit > 0
                           /\ Len(keys'[c]) >= config.scan_limit)]_vars
  /\ \A c \in Conns : pc[c] = "get_all_keys" ~> pc[c] # "get_all_keys"

\* a scan with no cap ended: its SCANs returned only empty batches
C25_Witness ==
  /\ config.scan_limit = 0 /\ config.allow_scan
  /\ \A k \in UserKeys : records[k] = Absent
  /\ query_type["c1"].type = "SelectScan"
  /\ pc["c1"] = "idle" /\ logged["c1"] = "scan"
  /\ ops["c1"] = {"scan"}
  /\ response["c1"] = ResultSet("users", <<>>)

\* C26 (SpecSkew): while other clients change the table, each turn of the
\* loop over the enumerated keys fetches the value its key has at that
\* moment; the turn adds one row, with the key's pk first, when the GET
\* returned a value that is a well-formed record, and no row when the key is
\* gone, unparsable or the GET failed; after the last key the client gets
\* the rows as a result set, not an error.
C26_ScanToleratesReadSkew ==
  [][\A c \in Conns :
       (pc[c] = "scan_rows" /\ keys'[c] # keys[c]) =>
         LET key == Head(keys[c])
             row == <<CHOOSE pk \in PKs : UserKey("users", pk) = key,
                      "name", "email", "age", "created_at">>
             rows == IF pc'[c] = "idle" THEN response'[c].rows ELSE rw'[c]
         IN /\ got'[c] \in {records[key], "err"}
            /\ rows = IF got'[c] = GoodRecordJson THEN Append(rw[c], row) ELSE rw[c]
            /\ pc'[c] = "idle" <=> Len(keys[c]) = 1
            /\ pc'[c] = "idle" =>
                 response'[c].kind = "resultset" /\ logged'[c] = "scan"]_vars

\* a scan ended with a row although the key it fetched last was enumerated
\* and then deleted, and an earlier one was overwritten with a value that
\* does not parse
C26_Witness ==
  /\ query_type["c1"].type = "SelectScan"
  /\ pc["c1"] = "idle" /\ logged["c1"] = "scan"
  /\ got["c1"] = Absent
  /\ Cardinality(reads["c1"]) = MaxKeys
  /\ Len(response["c1"].rows) = 1
  /\ \E k \in reads["c1"] : records[k] = BadJson

\* C27 (SpecFlag): with allow_scan = false, a query classified SelectScan is
\* answered at once with an acknowledgement of no rows, not an error; no SCAN
\* and no GET was issued for it: the script of the rate limit is the only
\* store command.
C27_ScanDisabled ==
  \A c \in Conns :
    (~config.allow_scan /\ query_type[c].type = "SelectScan")
      => /\ pc[c] = "idle"
         /\ response[c] = Ack
         /\ logged[c] = "scan_rejected"
         /\ ops[c] \subseteq {"script", "script:err"}
         /\ reads[c] = {} /\ got[c] = "none"
         /\ keys[c] = <<>> /\ cursor[c] = 0

\* scanning disabled, a record stored: the scan passed the rate limit and
\* was acknowledged
C27_Witness ==
  /\ ~config.allow_scan /\ config.rate_limit > 0
  /\ records[UserKey("users", "1")] = GoodRecordJson
  /\ query_type["c1"].type = "SelectScan"
  /\ allowed["c1"] /\ ops["c1"] = {"script"}
  /\ response["c1"] = Ack

\* C28 (SpecAuth): a verification whose GETDEL returned a payload that does
\* not parse returns what a verification of an absent token returns
\* (verified = false, every other field None, the qr_verify result set with
\* no row) and leaves the key removed; a token issued with such a payload is
\* never verified, at any attempt, until it is issued anew.
C28_MalformedAsAbsent ==
  /\ [][\A c \in Conns :
          (/\ pc[c] = "verify_token" /\ pc'[c] = "idle"
           /\ auth[query_type[c].token] = BadJson
           /\ qr_seen'[c] = "payload")
            => /\ qr_result'[c] = [verified |-> FALSE, user_id |-> None,
                                   facility |-> None, verified_at |-> None,
                                   data |-> None]
               /\ response'[c] = [kind |-> "resultset", cols |-> "qr_verify",
                                  rows |-> <<>>]
               /\ auth'[query_type[c].token] = Absent]_vars
  /\ [](\A t \in Tokens :
          tok_hist[t].issued = BadJson => tok_hist[t].successes = 0)

\* a token issued with a malformed payload was verified twice: the first
\* attempt read the payload, the second found the key gone
C28_Witness ==
  /\ tok_hist["t1"].issued = BadJson /\ ~tok_hist["t1"].errs
  /\ tok_hist["t1"].attempts = 2 /\ tok_hist["t1"].successes = 0
  /\ auth["t1"] = Absent
  /\ pc["c1"] = "idle" /\ pc["c2"] = "idle"
  /\ qr_seen["c1"] = "payload" /\ qr_seen["c2"] = "consumed"
  /\ response["c1"] = response["c2"]

\* C29 (SpecParse): the table of a DescribeTable, SelectByPk or SelectScan
\* that parse_query returns is one of the known tables it was given, so that
\* on_query, which gives the keys of its schema map, finds the schema.
C29_KnownTable ==
  parsed.type \in {"DescribeTable", "SelectByPk", "SelectScan"}
    => \E i \in DOMAIN known_tables : parsed.table = known_tables[i]

\* a point lookup on the second of two known tables, written in upper case
C29_Witness ==
  /\ parsed.type = "SelectByPk"
  /\ Len(known_tables) = 2 /\ parsed.table = known_tables[2]
  /\ contains(text, <<"U", "S", "E", "R", "S">>)

\* C30 (SpecLock): whenever on_query is about to lock the mutex of its
\* Backend - for the rate limit check of the next query, the first SCAN of
\* get_all_keys, a get_record or verify_token - the mutex is unlocked, and
\* between the turns of the loop of get_all_keys its guard is the only one;
\* every query received is answered.
C30_LockDiscipline ==
  /\ [](\A c \in Conns :
          /\ pc[c] \in {"idle", "get_record", "scan_rows", "verify_token"}
               => redis[c] = Unlocked
          /\ pc[c] = "get_all_keys"
               => redis[c] = IF cursor[c] = 0 THEN Unlocked ELSE "get_all_keys")
  /\ \A c \in Conns : pc[c] # "idle" ~> pc[c] = "idle"

\* a scan was answered with a row: the rate limit check, get_all_keys and
\* every get_record took the lock in turn
C30_Witness ==
  /\ query_type["c1"].type = "SelectScan"
  /\ pc["c1"] = "idle" /\ logged["c1"] = "scan"
  /\ ops["c1"] = {"script", "scan", "get"}
  /\ Cardinality(reads["c1"]) = 2
  /\ Len(response["c1"].rows) = 1
  /\ redis["c1"] = Unlocked
====
